---- MODULE Spec2Model ----
(***************************************************************************)
(* A model of the VXLAN/OSPF fabric simulator: the fabric topology         *)
(* (simulator/topology.py), the shortest-path-first routing engine         *)
(* (simulator/ospf.py, on networkx's Dijkstra) and the VXLAN overlay        *)
(* registry (simulator/vxlan.py).                                          *)
(*                                                                         *)
(* Python strings are sequences of one-character strings, so that the      *)
(* f-string formatting of node names and the code-point order used by      *)
(* sorted() are computed rather than assumed.  Python dicts are functions; *)
(* the adjacency dicts of the graph are kept as sequences (insertion       *)
(* order), because Dijkstra's tie-break depends on their iteration order.  *)
(***************************************************************************)
EXTENDS Integers, Sequences, FiniteSets, TLC

VARIABLES
    fabric,     \* topology.Fabric: [nodes, graph]
    overlay,    \* vxlan.VXLANOverlay: [vnis, vteps]
    call,       \* the most recent call: [op, args, ret]
    sim         \* simulate.simulate: [pc, rtab, tunnels, sample, result]

vars == <<fabric, overlay, call, sim>>

-----------------------------------------------------------------------------
(* Bounds of the model *)

MaxSpines == 2      \* build_spine_leaf(spines, leaves): spines in 1..MaxSpines
MaxLeaves == 3      \* leaves in 1..MaxLeaves
MaxLinks == 3       \* edges a hand-built graph may hold
MaxVniList == 2     \* length of the vnis list of one attach_vtep call

-----------------------------------------------------------------------------
(* Python values *)

None == "None"
EmptyMap == [x \in {} |-> 0]

Ok(v) == <<"ok", v>>
Raise(e) == <<"raise", e>>

Range(s) == {s[i] : i \in 1..Len(s)}

\* ord() of the characters that occur in names
Ord(ch) ==
    CASE ch = "0" -> 48 [] ch = "1" -> 49 [] ch = "2" -> 50 [] ch = "3" -> 51
      [] ch = "4" -> 52 [] ch = "5" -> 53 [] ch = "6" -> 54 [] ch = "7" -> 55
      [] ch = "8" -> 56 [] ch = "9" -> 57 [] ch = "." -> 46
      [] ch = "H" -> 72 [] ch = "L" -> 76 [] ch = "S" -> 83

Digit(d) ==
    CASE d = 0 -> "0" [] d = 1 -> "1" [] d = 2 -> "2" [] d = 3 -> "3"
      [] d = 4 -> "4" [] d = 5 -> "5" [] d = 6 -> "6" [] d = 7 -> "7"
      [] d = 8 -> "8" [] d = 9 -> "9"

\* str(i) for i >= 0, as f"{i}" formats it
RECURSIVE Str(_)
Str(i) == IF i < 10 THEN <<Digit(i)>> ELSE Str(i \div 10) \o <<Digit(i % 10)>>

\* Python's str < str: lexicographic by code point, a proper prefix first
RECURSIVE StrLess(_, _)
StrLess(a, b) ==
    IF a = <<>> THEN b # <<>>
    ELSE IF b = <<>> THEN FALSE
    ELSE IF Ord(Head(a)) # Ord(Head(b)) THEN Ord(Head(a)) < Ord(Head(b))
    ELSE StrLess(Tail(a), Tail(b))

\* sorted(S) for a set S of strings
RECURSIVE Sorted(_)
Sorted(S) ==
    IF S = {} THEN <<>>
    ELSE LET m == CHOOSE x \in S : \A y \in S \ {x} : StrLess(x, y)
         IN <<m>> \o Sorted(S \ {m})

-----------------------------------------------------------------------------
(* networkx.Graph, as far as the simulator uses it *)

EmptyGraph == [adj |-> EmptyMap, cost |-> EmptyMap]

Vertices(G) == DOMAIN G.adj
HasEdge(G, u, v) == u \in Vertices(G) /\ v \in Range(G.adj[u])
Edges(G) == DOMAIN G.cost

\* Graph.add_node(n): a new vertex gets an empty adjacency dict
GAddNode(G, n) ==
    IF n \in Vertices(G) THEN G
    ELSE [G EXCEPT !.adj = (n :> <<>>) @@ @]

\* Graph.add_edge(u, v, cost=c): missing endpoints become vertices; the edge's
\* data dict is shared by both directions; a key already present keeps its place
GAddEdge(G, u, v, c) ==
    LET G1 == GAddNode(GAddNode(G, u), v)
        Put(s, x) == IF x \in Range(s) THEN s ELSE Append(s, x)
        adj1 == [G1.adj EXCEPT ![u] = Put(@, v)]
        adj2 == [adj1 EXCEPT ![v] = Put(@, u)]
    IN [adj |-> adj2, cost |-> ({u, v} :> c) @@ G1.cost]

EdgeCost(G, u, v) == G.cost[{u, v}]

-----------------------------------------------------------------------------
(* networkx's Dijkstra: _dijkstra_multisource with one source, as called by
   single_source_dijkstra_path and single_source_dijkstra_path_length *)

\* a faulty variant: the weight networkx falls back to when the attribute named
\* by weight= is missing from every edge
WeightUnit(G, v, u) == 1
\* weight="cost": the weight of an edge is its "cost" attribute
Weight(G, v, u) == EdgeCost(G, v, u)

\* a faulty variant: a queue in place of the heap (breadth-first search)
HeapFifo(fringe) ==
    CHOOSE e \in fringe : \A f \in fringe : e[2] <= f[2]
\* heappop(fringe): the least (distance, counter, vertex) tuple
HeapPop(fringe) ==
    CHOOSE e \in fringe :
        \A f \in fringe : e[1] < f[1] \/ (e[1] = f[1] /\ e[2] <= f[2])

\* for u, e in G_succ[v].items(): ... , from the i-th neighbour on
RECURSIVE Relax(_, _, _, _)
Relax(G, v, i, st) ==
    IF i > Len(G.adj[v]) THEN st
    ELSE LET u == G.adj[v][i]
             vu_dist == st.dist[v] + Weight(G, v, u)
         IN IF u \in DOMAIN st.dist
              THEN Relax(G, v, i + 1, st)
            ELSE IF u \notin DOMAIN st.seen \/ vu_dist < st.seen[u]
              THEN Relax(G, v, i + 1,
                         [st EXCEPT !.seen = (u :> vu_dist) @@ @,
                                    !.fringe = @ \cup {<<vu_dist, st.c, u>>},
                                    !.c = @ + 1,
                                    !.paths = (u :> Append(st.paths[v], u)) @@ @])
            ELSE Relax(G, v, i + 1, st)

\* while fringe: pop; skip a finished vertex; else fix its distance and relax
RECURSIVE DijkstraLoop(_, _)
DijkstraLoop(G, st) ==
    IF st.fringe = {} THEN st
    ELSE LET e == HeapPop(st.fringe)
             rest == [st EXCEPT !.fringe = @ \ {e}]
         IN IF e[3] \in DOMAIN st.dist
              THEN DijkstraLoop(G, rest)
              ELSE DijkstraLoop(G, Relax(G, e[3], 1,
                        [rest EXCEPT !.dist = (e[3] :> e[1]) @@ @]))

\* the run from one source: paths (vertex -> path from source) and dist
Dijkstra(G, source) ==
    DijkstraLoop(G, [dist |-> EmptyMap,
                     seen |-> (source :> 0),
                     paths |-> (source :> <<source>>),
                     fringe |-> {<<0, 0, source>>},
                     c |-> 1])

-----------------------------------------------------------------------------
(* simulator/ospf.py *)

\* a faulty variant: path[-2], the node before the destination
NextHopBeforeDest(path, dest) == IF Len(path) > 1 THEN path[Len(path) - 1] ELSE dest
\* next_hop = path[1] if len(path) > 1 else dest   (Python indexes from 0)
NextHop(path, dest) == IF Len(path) > 1 THEN path[2] ELSE dest

\* a faulty variant: the source is not skipped
DestsWithSource(paths, start_node) == DOMAIN paths
\* the destinations that get a row: every key of paths but the source
Dests(paths, start_node) == {dest \in DOMAIN paths : start_node # dest}

\* a routing table: dest -> <<next_hop, cost>>
compute_spf_for_node(graph, start_node) ==
    IF start_node \notin Vertices(graph) THEN EmptyMap
    ELSE LET run == Dijkstra(graph, start_node)
             paths == run.paths
             costs == run.dist
         IN [dest \in Dests(paths, start_node) |->
                <<NextHop(paths[dest], dest), costs[dest]>>]

install_routes_for_all(graph) ==
    [node \in Vertices(graph) |-> compute_spf_for_node(graph, node)]

-----------------------------------------------------------------------------
(* simulator/topology.py *)

Node(name, role, loopback, vtep_ip) ==
    [name |-> name, role |-> role, loopback |-> loopback,
     vtep_ip |-> vtep_ip, routes |-> EmptyMap]

Link(a, b, cost) == [a |-> a, b |-> b, cost |-> cost]

EmptyFabric == [nodes |-> EmptyMap, graph |-> EmptyGraph]

add_node(F, node) ==
    [nodes |-> (node.name :> node) @@ F.nodes,
     graph |-> GAddNode(F.graph, node.name)]

add_link(F, link) ==
    [F EXCEPT !.graph = GAddEdge(@, link.a, link.b, link.cost)]

\* f"S{i}", f"L{i}", f"10.255.0.{i}", f"10.0.0.{i}"
SpineName(i) == <<"S">> \o Str(i)
LeafName(i) == <<"L">> \o Str(i)
loopback_ip(i) == <<"1", "0", ".", "2", "5", "5", ".", "0", ".">> \o Str(i)
vtep_ip(i) == <<"1", "0", ".", "0", ".", "0", ".">> \o Str(i)

\* a faulty variant: spines get a VTEP address as leaves do
SpineNodeWithVtep(i) == Node(SpineName(i), "spine", loopback_ip(i), vtep_ip(i))
\* Node(name=name, role="spine", loopback=loopback_ip(i)); vtep_ip defaults to None
SpineNode(i) == Node(SpineName(i), "spine", loopback_ip(i), None)

LeafNode(i, spines) ==
    Node(LeafName(i), "leaf", loopback_ip(i + spines), vtep_ip(i + spines))

\* for i in range(1, spines + 1): add the spine nodes, from i on
RECURSIVE AddSpines(_, _, _)
AddSpines(F, i, spines) ==
    IF i > spines THEN F ELSE AddSpines(add_node(F, SpineNode(i)), i + 1, spines)

RECURSIVE AddLeaves(_, _, _, _)
AddLeaves(F, i, spines, leaves) ==
    IF i > leaves THEN F
    ELSE AddLeaves(add_node(F, LeafNode(i, spines)), i + 1, spines, leaves)

\* for si in range(1, spines + 1): for li in range(1, leaves + 1): add_link
RECURSIVE AddMesh(_, _, _, _, _)
AddMesh(F, si, li, spines, leaves) ==
    IF si > spines THEN F
    ELSE IF li > leaves THEN AddMesh(F, si + 1, 1, spines, leaves)
    ELSE AddMesh(add_link(F, Link(SpineName(si), LeafName(li), 10)),
                 si, li + 1, spines, leaves)

build_spine_leaf(F, spines, leaves) ==
    AddMesh(AddLeaves(AddSpines(F, 1, spines), 1, spines, leaves),
            1, 1, spines, leaves)

\* a faulty variant: an unknown name has no neighbours
neighborsOrEmpty(F, node_name) ==
    IF node_name \in Vertices(F.graph) THEN Ok(F.graph.adj[node_name]) ELSE Ok(<<>>)
\* list(self.graph.neighbors(node_name)); networkx raises for an unknown vertex
neighbors(F, node_name) ==
    IF node_name \in Vertices(F.graph)
      THEN Ok(F.graph.adj[node_name])
      ELSE Raise("NetworkXError")

\* self.graph[a][b]["cost"]
link_cost(F, a, b) ==
    IF HasEdge(F.graph, a, b) THEN Ok(EdgeCost(F.graph, a, b)) ELSE Raise("KeyError")

-----------------------------------------------------------------------------
(* simulator/vxlan.py *)

VTEP(name, ip) == [name |-> name, ip |-> ip, vnis |-> {}]
VNI(id, name) == [id |-> id, name |-> name, members |-> {}]

EmptyOverlay == [vnis |-> EmptyMap, vteps |-> EmptyMap]

\* f"VNI-{vni_id}"
DefaultVniName(vni_id) == <<"V", "N", "I", "-">> \o Str(vni_id)

\* a faulty variant: the VNI is created anew even when present
add_vni_always(O, vni_id, name) ==
    [O EXCEPT !.vnis = (vni_id :> VNI(vni_id, name)) @@ @]
\* if vni_id not in self.vnis: self.vnis[vni_id] = VNI(id=vni_id, name=name)
add_vni(O, vni_id, name) ==
    IF vni_id \notin DOMAIN O.vnis
      THEN [O EXCEPT !.vnis = (vni_id :> VNI(vni_id, name)) @@ @]
      ELSE O

\* a faulty variant: the implicit creation replaces a segment that exists
AttachOneRecreate(O, node, vni_id) ==
    LET O1 == add_vni_always(O, vni_id, DefaultVniName(vni_id))
    IN [O1 EXCEPT !.vnis[vni_id].members = @ \cup {node},
                  !.vteps[node].vnis = @ \cup {vni_id}]
\* a faulty variant: the endpoint's own id set is not updated
AttachOneMemberOnly(O, node, vni_id) ==
    LET O1 == add_vni(O, vni_id, DefaultVniName(vni_id))
    IN [O1 EXCEPT !.vnis[vni_id].members = @ \cup {node}]
\* one turn of attach_vtep's loop: auto-create the VNI, add the member, add the id
AttachOne(O, node, vni_id) ==
    LET O1 == add_vni(O, vni_id, DefaultVniName(vni_id))
    IN [O1 EXCEPT !.vnis[vni_id].members = @ \cup {node},
                  !.vteps[node].vnis = @ \cup {vni_id}]

RECURSIVE AttachLoop(_, _, _, _)
AttachLoop(O, node, vnis, i) ==
    IF i > Len(vnis) THEN O
    ELSE AttachLoop(AttachOne(O, node, vnis[i]), node, vnis, i + 1)

attach_vtep(O, node, ip, vnis) ==
    LET O1 == IF node \notin DOMAIN O.vteps
                THEN [O EXCEPT !.vteps = (node :> VTEP(node, ip)) @@ @]
                ELSE [O EXCEPT !.vteps[node].ip = ip]
    IN AttachLoop(O1, node, vnis, 1)

\* a faulty variant: range(i, len(members)), which pairs a member with itself
InnerStartSame(i) == i
\* for j in range(i + 1, len(members)): the first j (Python's i is i - 1 here)
InnerStart(i) == i + 1

\* for i in range(len(members)): for j in range(i + 1, len(members)): append
RECURSIVE TunnelLoop(_, _, _, _)
TunnelLoop(members, i, j, tunnels) ==
    IF i > Len(members) THEN tunnels
    ELSE IF j > Len(members)
      THEN TunnelLoop(members, i + 1, InnerStart(i + 1), tunnels)
    ELSE TunnelLoop(members, i, j + 1, Append(tunnels, <<members[i], members[j]>>))

tunnels_for_vni(O, vni_id) ==
    IF vni_id \notin DOMAIN O.vnis THEN <<>>
    ELSE LET members == Sorted(O.vnis[vni_id].members)
         IN TunnelLoop(members, 1, InnerStart(1), <<>>)

\* d[key] of a dict kept as the list of its items
Get(d, key) == d[CHOOSE i \in 1..Len(d) : d[i][1] = key][2]

\* a faulty variant: the outer addresses are taken the other way round
encapsulateReversed(vtep_a, vtep_b, vni_id, payload_desc) ==
    << <<"description", "VXLAN Encapsulation">>,
       <<"payload", payload_desc>>,
       <<"vxlan_header", <<"V", "N", "I", " ">> \o Str(vni_id)>>,
       <<"outer_udp_header", "UDP Port 4789">>,
       <<"outer_ip_header", <<"s", "r", "c", "=">> \o vtep_b.ip
                              \o <<",", " ", "d", "s", "t", "=">> \o vtep_a.ip>> >>
\* the dict is the list of its items, which None can be told from; f"VNI
\* {vni_id}" and f"src={vtep_a.ip}, dst={vtep_b.ip}" are computed, the three
\* strings that are passed through are kept as they are
encapsulate(vtep_a, vtep_b, vni_id, payload_desc) ==
    << <<"description", "VXLAN Encapsulation">>,
       <<"payload", payload_desc>>,
       <<"vxlan_header", <<"V", "N", "I", " ">> \o Str(vni_id)>>,
       <<"outer_udp_header", "UDP Port 4789">>,
       <<"outer_ip_header", <<"s", "r", "c", "=">> \o vtep_a.ip
                              \o <<",", " ", "d", "s", "t", "=">> \o vtep_b.ip>> >>

-----------------------------------------------------------------------------
(* simulate.py: the orchestrator *)

\* topology.Fabric().build_spine_leaf(spines=2, leaves=3)
build_demo_fabric == build_spine_leaf(EmptyFabric, 2, 3)

\* the name build_overlay gives segment 10010: "customers-A"
CustomersA == <<"c", "u", "s", "t", "o", "m", "e", "r", "s", "-", "A">>

\* for name, node in fabric.nodes.items(): if node.role == "leaf" and
\* node.vtep_ip: vx.attach_vtep(node=name, ip=node.vtep_ip, vnis=[10010])
RECURSIVE AttachLeaves(_, _, _, _)
AttachLeaves(vx, F, names, i) ==
    IF i > Len(names) THEN vx
    ELSE LET node == F.nodes[names[i]]
         IN AttachLeaves(IF /\ node.role = "leaf"
                            /\ node.vtep_ip # None
                            /\ node.vtep_ip # <<>>
                           THEN attach_vtep(vx, names[i], node.vtep_ip, <<10010>>)
                           ELSE vx,
                         F, names, i + 1)

\* the registry is walked in name order here; every turn adds one node to the
\* member set of the same segment, so the overlay built does not depend on it
build_overlay(F) ==
    AttachLeaves(add_vni(EmptyOverlay, 10010, CustomersA), F,
                 Sorted(DOMAIN F.nodes), 1)

\* list(s) of a set of strings: every order, since the iteration order of such
\* a set changes from one interpreter run to the next
Lists(S) == {p \in [1..Cardinality(S) -> S] : Range(p) = S}

\* Fabric.to_dict; the two lists are kept as the mappings they enumerate
to_dict(F) ==
    [nodes |-> [n \in DOMAIN F.nodes |->
                  [name |-> F.nodes[n].name, role |-> F.nodes[n].role,
                   loopback |-> F.nodes[n].loopback,
                   vtep_ip |-> F.nodes[n].vtep_ip]],
     links |-> [e \in Edges(F.graph) |-> F.graph.cost[e]]]

\* the "routes" entry of the result: dst -> {"nexthop", "cost"} for every node
RoutesDict(rtab) ==
    [n \in DOMAIN rtab |->
       [d \in DOMAIN rtab[n] |-> [nexthop |-> rtab[n][d][1], cost |-> rtab[n][d][2]]]]

\* the "vxlan" entry of the result; members is the list chosen for each segment
VxlanDict(O, members, tunnels, sample) ==
    [vnis |-> [v \in DOMAIN O.vnis |->
                 [name |-> O.vnis[v].name, members |-> members[v]]],
     vteps |-> [e \in DOMAIN O.vteps |->
                  [ip |-> O.vteps[e].ip,
                   vnis |-> CHOOSE p \in Lists(O.vteps[e].vnis) : TRUE]],
     tunnels_vni_10010 |-> tunnels,
     sample_encapsulation |-> sample]

-----------------------------------------------------------------------------
(* Inputs *)

SpineNames == {SpineName(i) : i \in 1..MaxSpines}
LeafNames == {LeafName(i) : i \in 1..MaxLeaves}
HostName == <<"H", "1">>

\* names and costs of hand-built graphs
SpfNames == {SpineName(1), SpineName(2), LeafName(1), LeafName(2)}
SpfCosts == {0, 2}
\* strictly positive costs, under which two links can be cheaper than one
HopCosts == {1, 3}
FabNames == {SpineName(1), LeafName(1), HostName}
FabCosts == {1, 10}

RoleOf(name) ==
    CASE Head(name) = "S" -> "spine" [] Head(name) = "L" -> "leaf" [] OTHER -> "host"

\* the node a caller registers under a name
NodeFor(name) ==
    Node(name, RoleOf(name), loopback_ip(1),
         IF RoleOf(name) = "leaf" THEN vtep_ip(1) ELSE None)

\* overlay inputs: "L10" sorts before "L2"
VtepNames == {LeafName(1), LeafName(2), LeafName(10)}
\* the addresses nodes are attached under: L1 under two, L1 and L10 under one
VtepAddrs == {<<LeafName(1), vtep_ip(3)>>, <<LeafName(1), vtep_ip(5)>>,
              <<LeafName(2), vtep_ip(4)>>, <<LeafName(10), vtep_ip(5)>>}
VniIds == {10010, 20}
VniLists == UNION {[1..n -> VniIds] : n \in 0..MaxVniList}

-----------------------------------------------------------------------------
(* The state machine: one action per call *)

\* ret is Ok(value), or Raise(exception) when the call raised
Call(op, args, ret) == [op |-> op, args |-> args, ret |-> ret]

Init ==
    /\ fabric = EmptyFabric
    /\ overlay = EmptyOverlay
    /\ call = Call("init", <<>>, Ok(None))
    /\ sim = [pc |-> "start", rtab |-> None, tunnels |-> None,
              sample |-> None, result |-> None]

AddNode(node) ==
    /\ fabric' = add_node(fabric, node)
    /\ call' = Call("add_node", <<node.name>>, Ok(None))
    /\ UNCHANGED <<overlay, sim>>

AddLink(a, b, cost) ==
    /\ \/ {a, b} \in Edges(fabric.graph)
       \/ Cardinality(Edges(fabric.graph)) < MaxLinks
    /\ fabric' = add_link(fabric, Link(a, b, cost))
    /\ call' = Call("add_link", <<a, b, cost>>, Ok(None))
    /\ UNCHANGED <<overlay, sim>>

\* topology.Fabric().build_spine_leaf(spines, leaves): on a fresh fabric
BuildSpineLeaf(spines, leaves) ==
    /\ fabric = EmptyFabric
    /\ fabric' = build_spine_leaf(fabric, spines, leaves)
    /\ call' = Call("build_spine_leaf", <<spines, leaves>>, Ok("self"))
    /\ UNCHANGED <<overlay, sim>>

Neighbors(node_name) ==
    /\ call' = Call("neighbors", <<node_name>>, neighbors(fabric, node_name))
    /\ UNCHANGED <<fabric, overlay, sim>>

LinkCost(a, b) ==
    /\ call' = Call("link_cost", <<a, b>>, link_cost(fabric, a, b))
    /\ UNCHANGED <<fabric, overlay, sim>>

ComputeSpf(start_node) ==
    /\ call' = Call("compute_spf_for_node", <<start_node>>,
                    Ok(compute_spf_for_node(fabric.graph, start_node)))
    /\ UNCHANGED <<fabric, overlay, sim>>

InstallRoutes ==
    /\ call' = Call("install_routes_for_all", <<>>,
                    Ok(install_routes_for_all(fabric.graph)))
    /\ UNCHANGED <<fabric, overlay, sim>>

AddVni(vni_id, name) ==
    /\ overlay' = add_vni(overlay, vni_id, name)
    /\ call' = Call("add_vni", <<vni_id, name>>, Ok(None))
    /\ UNCHANGED <<fabric, sim>>

AttachVtep(node, ip, vnis) ==
    /\ overlay' = attach_vtep(overlay, node, ip, vnis)
    /\ call' = Call("attach_vtep", <<node, ip, vnis>>, Ok(None))
    /\ UNCHANGED <<fabric, sim>>

TunnelsForVni(vni_id) ==
    /\ call' = Call("tunnels_for_vni", <<vni_id>>,
                    Ok(tunnels_for_vni(overlay, vni_id)))
    /\ UNCHANGED <<fabric, overlay, sim>>

\* fabric = build_demo_fabric(), for the fabric F that was built
SimBuildFabric(F) ==
    /\ sim.pc = "start"
    /\ fabric' = F
    /\ sim' = [sim EXCEPT !.pc = "built"]
    /\ call' = Call("build_demo_fabric", <<>>, Ok("fabric"))
    /\ UNCHANGED overlay

\* rtab = ospf.install_routes_for_all(fabric.graph)
SimInstallRoutes ==
    /\ sim.pc = "built"
    /\ sim' = [sim EXCEPT !.pc = "routed",
                          !.rtab = install_routes_for_all(fabric.graph)]
    /\ call' = Call("install_routes_for_all", <<>>, Ok(sim'.rtab))
    /\ UNCHANGED <<fabric, overlay>>

\* for name, node in fabric.nodes.items(): node.routes = rtab[name]
SimAttachRoutes ==
    /\ sim.pc = "routed"
    /\ fabric' = [fabric EXCEPT !.nodes =
                     [n \in DOMAIN @ |-> [@[n] EXCEPT !.routes = sim.rtab[n]]]]
    /\ sim' = [sim EXCEPT !.pc = "attached"]
    /\ UNCHANGED <<overlay, call>>

\* overlay = build_overlay(fabric)
SimBuildOverlay ==
    /\ sim.pc = "attached"
    /\ overlay' = build_overlay(fabric)
    /\ sim' = [sim EXCEPT !.pc = "overlaid"]
    /\ call' = Call("build_overlay", <<>>, Ok("vx"))
    /\ UNCHANGED fabric

\* tunnels = overlay.tunnels_for_vni(10010)
SimTunnels ==
    /\ sim.pc = "overlaid"
    /\ sim' = [sim EXCEPT !.pc = "tunnelled",
                          !.tunnels = tunnels_for_vni(overlay, 10010)]
    /\ call' = Call("tunnels_for_vni", <<10010>>, Ok(sim'.tunnels))
    /\ UNCHANGED <<fabric, overlay>>

\* sample = None; if tunnels: sample = overlay.encapsulate(vteps of tunnels[0])
SimEncapsulate ==
    /\ sim.pc = "tunnelled"
    /\ IF sim.tunnels # <<>>
         THEN LET src_vtep == sim.tunnels[1][1]
                  dst_vtep == sim.tunnels[1][2]
                  sample == encapsulate(overlay.vteps[src_vtep],
                                        overlay.vteps[dst_vtep], 10010,
                                        "L2 frame: MAC A -> MAC B")
              IN /\ sim' = [sim EXCEPT !.pc = "sampled", !.sample = sample]
                 /\ call' = Call("encapsulate", <<src_vtep, dst_vtep, 10010>>,
                                 Ok(sample))
         ELSE /\ sim' = [sim EXCEPT !.pc = "sampled"]
              /\ UNCHANGED call
    /\ UNCHANGED <<fabric, overlay>>

\* result = {"topology": ..., "routes": ..., "vxlan": ...}; return result
SimAssemble(members) ==
    /\ sim.pc = "sampled"
    /\ sim' = [sim EXCEPT !.pc = "done",
                          !.result = [topology |-> to_dict(fabric),
                                      routes |-> RoutesDict(sim.rtab),
                                      vxlan |-> VxlanDict(overlay, members,
                                                          sim.tunnels, sim.sample)]]
    /\ call' = Call("simulate", <<>>, Ok(sim'.result))
    /\ UNCHANGED <<fabric, overlay>>

\* api_topology, api_routes, api_vxlan: RESULTS.get(key, {})
ApiGet(key) ==
    /\ sim.pc = "done"
    /\ call' = Call("api", <<key>>, Ok(sim.result[key]))
    /\ UNCHANGED <<fabric, overlay, sim>>

\* hand-built fabrics: add_node, add_link and the two queries
FabricNext ==
    \/ \E n \in FabNames : AddNode(NodeFor(n))
    \/ \E a, b \in FabNames, c \in FabCosts : a # b /\ AddLink(a, b, c)
    \/ \E n \in FabNames : Neighbors(n)
    \/ \E a, b \in FabNames : LinkCost(a, b)

SpecFabric == Init /\ [][FabricNext]_vars

\* routing over hand-built graphs: any links among SpfNames, one isolated host
SpfNext ==
    \/ AddNode(NodeFor(HostName))
    \/ \E a, b \in SpfNames, c \in SpfCosts : StrLess(a, b) /\ AddLink(a, b, c)
    \/ \E s \in SpfNames \cup {HostName} : ComputeSpf(s)
    \/ InstallRoutes

SpecSpf == Init /\ [][SpfNext]_vars

\* all tables at once, over hand-built graphs whose links all cost something
HopNext ==
    \/ \E a, b \in SpfNames, c \in HopCosts : StrLess(a, b) /\ AddLink(a, b, c)
    \/ InstallRoutes

SpecHop == Init /\ [][HopNext]_vars

\* routing over built spine-leaf fabrics
ClosNames == SpineNames \cup LeafNames \cup {HostName}

ClosNext ==
    \/ \E s \in 1..MaxSpines, l \in 1..MaxLeaves : BuildSpineLeaf(s, l)
    \/ \E n \in ClosNames : Neighbors(n)
    \/ \E a, b \in ClosNames : LinkCost(a, b)
    \/ \E s \in ClosNames : ComputeSpf(s)
    \/ InstallRoutes

SpecClos == Init /\ [][ClosNext]_vars

\* the overlay registry
OverlayNext ==
    \/ \E v \in VniIds : AddVni(v, CustomersA)
    \/ \E na \in VtepAddrs, vs \in VniLists : AttachVtep(na[1], na[2], vs)
    \/ \E v \in VniIds : TunnelsForVni(v)

SpecOverlay == Init /\ [][OverlayNext]_vars

\* the fabrics the pipeline is run on: build_demo_fabric is the one of 2 spines
\* and 3 leaves, the others are the spine-leaf fabrics within the bounds
SimFabrics ==
    {build_demo_fabric} \cup
    {build_spine_leaf(EmptyFabric, s, l) : s \in 1..MaxSpines, l \in 1..MaxLeaves}

\* the lists list(vni.members) can be, one for every segment of the overlay
MemberLists ==
    {m \in [DOMAIN overlay.vnis ->
              UNION {Lists(overlay.vnis[v].members) : v \in DOMAIN overlay.vnis}] :
        \A v \in DOMAIN overlay.vnis : m[v] \in Lists(overlay.vnis[v].members)}

\* simulate(), one statement at a time, and the API that serves its result
SimNext ==
    \/ \E F \in SimFabrics : SimBuildFabric(F)
    \/ SimInstallRoutes
    \/ SimAttachRoutes
    \/ SimBuildOverlay
    \/ SimTunnels
    \/ SimEncapsulate
    \/ \E members \in MemberLists : SimAssemble(members)
    \/ \E key \in {"topology", "routes", "vxlan"} : ApiGet(key)

SpecSim == Init /\ [][SimNext]_vars

\* all calls together; the topology and the overlay share no state, so each
\* claim is settled under the specification of the component it speaks of
Next == FabricNext \/ SpfNext \/ HopNext \/ ClosNext \/ OverlayNext \/ SimNext

Spec == Init /\ [][Next]_vars

-----------------------------------------------------------------------------
(* What the routing claims speak of, defined without Dijkstra *)

\* the simple paths of G that start at the end of p and extend it; with costs
\* >= 0 a cheapest path can always be taken simple
RECURSIVE Extensions(_, _)
Extensions(G, p) ==
    {p} \cup UNION {Extensions(G, Append(p, u)) :
                        u \in Range(G.adj[p[Len(p)]]) \ Range(p)}

PathsBetween(G, s, d) ==
    IF s \notin Vertices(G) THEN {}
    ELSE {p \in Extensions(G, <<s>>) : p[Len(p)] = d}

RECURSIVE PathCost(_, _)
PathCost(G, p) ==
    IF Len(p) < 2 THEN 0
    ELSE EdgeCost(G, p[1], p[2]) + PathCost(G, Tail(p))

Least(S) == CHOOSE x \in S : \A y \in S : x <= y

\* the least total cost of a path from s to d; d must be reachable from s
MinCost(G, s, d) == Least({PathCost(G, p) : p \in PathsBetween(G, s, d)})

Reachable(G, s) == {d \in Vertices(G) : PathsBetween(G, s, d) # {}}

IsSpfCall == call.op = "compute_spf_for_node"
IsInstallCall == call.op = "install_routes_for_all"
NodesWithRole(role) == {n \in DOMAIN fabric.nodes : fabric.nodes[n].role = role}

-----------------------------------------------------------------------------
(* Claims on the routing engine and the fabric builder *)

\* C1: every row of the table compute_spf_for_node(graph, s) returns carries the
\* least total link cost of any path from s to its destination, and its next hop
\* is a neighbour of s on a cheapest path: cost(s, nh) + mincost(nh, d) =
\* mincost(s, d).
C1_RoutesAreCheapestPaths ==
    IsSpfCall =>
        LET G == fabric.graph
            s == call.args[1]
            table == call.ret[2]
        IN \A d \in DOMAIN table :
              LET nh == table[d][1]
              IN /\ table[d][2] = MinCost(G, s, d)
                 /\ HasEdge(G, s, nh)
                 /\ EdgeCost(G, s, nh) + MinCost(G, nh, d) = MinCost(G, s, d)

\* C1 witness: a destination directly linked to the source is routed over another
\* node, because the detour is strictly cheaper than the direct link.
C1_Witness ==
    /\ IsSpfCall
    /\ \E d \in DOMAIN call.ret[2] :
          /\ HasEdge(fabric.graph, call.args[1], d)
          /\ call.ret[2][d][1] # d
          /\ call.ret[2][d][2] < EdgeCost(fabric.graph, call.args[1], d)

\* C4: the keys of compute_spf_for_node(graph, s) are the vertices reachable from
\* s except s itself (none when s is no vertex), and install_routes_for_all has
\* one table per vertex, none of which holds its own source.
C4_RouteKeysAreReachableOthers ==
    /\ IsSpfCall =>
          /\ call.ret[1] = "ok"
          /\ DOMAIN call.ret[2] = Reachable(fabric.graph, call.args[1]) \ {call.args[1]}
          /\ call.args[1] \notin Vertices(fabric.graph) => call.ret[2] = EmptyMap
    /\ IsInstallCall =>
          /\ call.ret[1] = "ok"
          /\ DOMAIN call.ret[2] = Vertices(fabric.graph)
          /\ \A n \in DOMAIN call.ret[2] :
                DOMAIN call.ret[2][n] = Reachable(fabric.graph, n) \ {n}

\* C4 witness: tables of a graph with an isolated vertex and two components; some
\* table is empty and some non-empty table leaves an existing vertex out.
C4_Witness ==
    /\ IsInstallCall
    /\ \E n \in DOMAIN call.ret[2] : call.ret[2][n] = EmptyMap
    /\ \E n \in DOMAIN call.ret[2] :
          /\ call.ret[2][n] # EmptyMap
          /\ \E m \in Vertices(fabric.graph) \ {n, HostName} : m \notin DOMAIN call.ret[2][n]

\* C5: build_spine_leaf(S, L) on an empty fabric yields exactly the nodes S1..SS
\* (spines) and L1..LL (leaves), links every spine to every leaf with cost 10,
\* links no two spines and no two leaves, and gives a VTEP address to leaves only.
C5_BuiltFabricIsSpineLeaf ==
    call.op = "build_spine_leaf" =>
        LET S == {SpineName(i) : i \in 1..call.args[1]}
            L == {LeafName(i) : i \in 1..call.args[2]}
            G == fabric.graph
        IN /\ DOMAIN fabric.nodes = S \cup L
           /\ Vertices(G) = S \cup L
           /\ S \cap L = {}
           /\ \A n \in S : fabric.nodes[n].role = "spine" /\ fabric.nodes[n].name = n
           /\ \A n \in L : fabric.nodes[n].role = "leaf" /\ fabric.nodes[n].name = n
           /\ \A a \in S, b \in L :
                 /\ HasEdge(G, a, b) /\ HasEdge(G, b, a)
                 /\ link_cost(fabric, a, b) = Ok(10)
                 /\ link_cost(fabric, b, a) = Ok(10)
           /\ \A a, b \in S : ~HasEdge(G, a, b) /\ {a, b} \notin Edges(G)
           /\ \A a, b \in L : ~HasEdge(G, a, b) /\ {a, b} \notin Edges(G)
           /\ \A n \in S \cup L : (fabric.nodes[n].vtep_ip # None) <=> (n \in L)

\* C5 witness: the demo fabric, two spines and three leaves, just built.
C5_Witness ==
    /\ call.op = "build_spine_leaf"
    /\ call.args = <<2, 3>>
    /\ Cardinality(Edges(fabric.graph)) = 6

\* C6: in the tables of a built spine-leaf fabric, every leaf reaches every other
\* leaf at cost 20 through a spine, and the cost from a to b equals the cost from
\* b to a for all nodes a, b.
C6_LeafToLeafCostAndSymmetry ==
    IsInstallCall =>
        LET rtab == call.ret[2]
        IN /\ \A a, b \in NodesWithRole("leaf") :
                 a # b => /\ b \in DOMAIN rtab[a]
                          /\ rtab[a][b][2] = 20
                          /\ rtab[a][b][1] \in NodesWithRole("spine")
           /\ \A a, b \in DOMAIN fabric.nodes :
                 a # b => /\ b \in DOMAIN rtab[a]
                          /\ a \in DOMAIN rtab[b]
                          /\ rtab[a][b][2] = rtab[b][a][2]

\* C6 witness: tables of a fabric with two spines and at least two leaves, where a
\* leaf-to-leaf route has two equal-cost spines to choose from.
C6_Witness ==
    /\ IsInstallCall
    /\ Cardinality(NodesWithRole("spine")) = 2
    /\ Cardinality(NodesWithRole("leaf")) >= 2
    /\ call.ret[2][LeafName(1)][LeafName(2)][2] = 20

\* C7: in the tables of a built spine-leaf fabric a leaf reaches each spine it is
\* linked to through that spine itself at the cost of the link, 10; and whenever
\* the direct link is a cheapest path, the next hop is the destination.
C7_DirectLinkNextHopIsDestination ==
    IsInstallCall =>
        LET rtab == call.ret[2]
            G == fabric.graph
        IN /\ \A a \in NodesWithRole("leaf"), s \in NodesWithRole("spine") :
                 HasEdge(G, a, s) =>
                    /\ rtab[a][s] = <<s, EdgeCost(G, a, s)>>
                    /\ EdgeCost(G, a, s) = 10
           /\ \A a \in DOMAIN rtab : \A d \in DOMAIN rtab[a] :
                 (HasEdge(G, a, d) /\ EdgeCost(G, a, d) = rtab[a][d][2])
                    => rtab[a][d][1] = d

\* C7 witness: tables in which a leaf has a direct route to a spine and a two-hop
\* route to another leaf.
C7_Witness ==
    /\ IsInstallCall
    /\ LeafName(2) \in DOMAIN fabric.nodes
    /\ call.ret[2][LeafName(1)][SpineName(1)] = <<SpineName(1), 10>>
    /\ call.ret[2][LeafName(1)][LeafName(2)][1] # LeafName(2)

-----------------------------------------------------------------------------
(* Claims on the overlay registry *)

MembersOf(O, v) == IF v \in DOMAIN O.vnis THEN O.vnis[v].members ELSE {}
VnisOf(O, e) == IF e \in DOMAIN O.vteps THEN O.vteps[e].vnis ELSE {}

\* C2: in every registry state reached by add_vni and attach_vtep calls, endpoint
\* e is a member of segment v exactly when v is in e's set of segment ids.
C2_MembershipIsBidirectional ==
    \A e \in VtepNames \cup DOMAIN overlay.vteps :
        \A v \in VniIds \cup DOMAIN overlay.vnis :
            (e \in MembersOf(overlay, v)) <=> (v \in VnisOf(overlay, e))

\* C2 witness: an endpoint attached to both segments, again under a new address,
\* next to a segment with several members and an endpoint in one segment only.
C2_Witness ==
    /\ call.op = "attach_vtep"
    /\ call.args[1] \in DOMAIN overlay.vteps
    /\ VnisOf(overlay, call.args[1]) = VniIds
    /\ Len(call.args[3]) = 1
    /\ \E v \in VniIds : Cardinality(MembersOf(overlay, v)) = 3
    /\ \E e \in DOMAIN overlay.vteps : Cardinality(VnisOf(overlay, e)) = 1

\* the state part of C3: what tunnels_for_vni returned, against the member set
C3_TunnelsResult ==
    call.op = "tunnels_for_vni" =>
        LET M == MembersOf(overlay, call.args[1])
            n == Cardinality(M)
            t == call.ret[2]
        IN /\ call.ret[1] = "ok"
           /\ 2 * Len(t) = n * (n - 1)
           /\ \A i \in 1..Len(t) :
                 /\ t[i][1] \in M /\ t[i][2] \in M
                 /\ StrLess(t[i][1], t[i][2])
           /\ \A x, y \in M :
                 x # y => Cardinality({i \in 1..Len(t) : {t[i][1], t[i][2]} = {x, y}}) = 1
           /\ (call.args[1] \notin DOMAIN overlay.vnis \/ n < 2) => t = <<>>

\* C3: tunnels_for_vni(id) returns n*(n-1)/2 pairs for a segment of n members,
\* each pair (x, y) of members with x < y in code-point order, every unordered
\* pair of distinct members exactly once, nothing for an unknown or smaller
\* segment; and the call leaves the registry as it was.
C3_TunnelsAreTheFullMesh ==
    /\ []C3_TunnelsResult
    /\ [][call'.op = "tunnels_for_vni" => overlay' = overlay]_vars

\* C3 witness: the three tunnels of a segment whose members are L1, L10 and L2,
\* in that order ("L10" sorts before "L2").
C3_Witness ==
    /\ call.op = "tunnels_for_vni"
    /\ call.ret[2] = << <<LeafName(1), LeafName(10)>>,
                        <<LeafName(1), LeafName(2)>>,
                        <<LeafName(10), LeafName(2)>> >>

\* C8: an attach_vtep(node, ip, vnis) call leaves every listed segment with its
\* earlier members and the node, and the endpoint with its earlier segment ids
\* and the listed ones; so a node attached to a segment before, or listed twice,
\* leaves the member set and the endpoint's id set unchanged.
C8_AttachIsIdempotent ==
    [][call'.op = "attach_vtep" =>
          LET node == call'.args[1]
              vnis == Range(call'.args[3])
          IN /\ \A v \in vnis :
                   /\ MembersOf(overlay', v) = MembersOf(overlay, v) \cup {node}
                   /\ node \in MembersOf(overlay, v)
                         => MembersOf(overlay', v) = MembersOf(overlay, v)
             /\ VnisOf(overlay', node) = VnisOf(overlay, node) \cup vnis
             /\ vnis \subseteq VnisOf(overlay, node)
                   => VnisOf(overlay', node) = VnisOf(overlay, node)
    ]_vars

\* C8 witness: a node attached with one id listed twice, to a segment that has
\* another member; the node is in the segment and the segment id in its set.
C8_Witness ==
    /\ call.op = "attach_vtep"
    /\ Len(call.args[3]) = 2
    /\ call.args[3][1] = call.args[3][2]
    /\ call.args[1] \in MembersOf(overlay, call.args[3][1])
    /\ Cardinality(MembersOf(overlay, call.args[3][1])) >= 2
    /\ VnisOf(overlay, call.args[1]) = {call.args[3][1]}

-----------------------------------------------------------------------------
(* Claims on the fabric's registry and queries *)

\* C9: in every fabric state reached by add_node and add_link calls, every graph
\* vertex and every endpoint of a graph edge is a registered node.
C9_LinksReferenceRegisteredNodes ==
    /\ Vertices(fabric.graph) \subseteq DOMAIN fabric.nodes
    /\ \A e \in Edges(fabric.graph) : e \subseteq DOMAIN fabric.nodes

\* the state part of C10: what the two queries returned, against the graph
C10_QueryResult ==
    LET G == fabric.graph
    IN /\ call.op = "neighbors" =>
             LET n == call.args[1]
             IN IF n \in Vertices(G)
                  THEN /\ call.ret[1] = "ok"
                       /\ Range(call.ret[2]) = {u \in Vertices(G) : {n, u} \in Edges(G)}
                  ELSE call.ret = Raise("NetworkXError")
       /\ call.op = "link_cost" =>
             LET e == {call.args[1], call.args[2]}
             IN IF e \in Edges(G)
                  THEN call.ret = Ok(G.cost[e])
                  ELSE call.ret = Raise("KeyError")

-----------------------------------------------------------------------------
(* Claims on the life of a segment *)

\* C11: once a segment id is in the registry, every later step (an add_vni with
\* that id, an attach_vtep that lists it, or any other call) keeps the id in the
\* registry with the name it had and with every member it had; an add_vni with
\* an id that exists changes nothing at all.
C11_SegmentsAreNeverReset ==
    [][ /\ \A v \in DOMAIN overlay.vnis :
              /\ v \in DOMAIN overlay'.vnis
              /\ overlay'.vnis[v].id = overlay.vnis[v].id
              /\ overlay'.vnis[v].name = overlay.vnis[v].name
              /\ overlay.vnis[v].members \subseteq overlay'.vnis[v].members
        /\ (call'.op = "add_vni" /\ call'.args[1] \in DOMAIN overlay.vnis)
              => overlay' = overlay
    ]_vars

\* C11 witness: add_vni("customers-A") was called for a segment that an attach
\* had created implicitly; it still has its default name and its two members.
C11_Witness ==
    /\ call.op = "add_vni"
    /\ call.args[2] = CustomersA
    /\ call.args[1] \in DOMAIN overlay.vnis
    /\ overlay.vnis[call.args[1]].name = DefaultVniName(call.args[1])
    /\ Cardinality(overlay.vnis[call.args[1]].members) = 2

-----------------------------------------------------------------------------
(* Claims on the orchestrator *)

\* sub occurs in s as a run of consecutive characters
Contains(s, sub) ==
    \E i \in 1..(Len(s) - Len(sub) + 1) : SubSeq(s, i, i + Len(sub) - 1) = sub

\* the run of simulate() itself: the fabric has 2 spines and 3 leaves
IsDemoRun ==
    /\ sim.pc # "start"
    /\ Cardinality(NodesWithRole("spine")) = 2
    /\ Cardinality(NodesWithRole("leaf")) = 3

\* C12: whenever the pipeline of simulate(), run over the
\* fabric of 2 spines and 3 leaves has assembled its result: segment 10010 has
\* exactly the members L1, L2, L3 (in the overlay and, in some order, in the
\* result); the tunnel list is (L1,L2), (L1,L3), (L2,L3) in that order; the
\* sample encapsulation is there, its outer addresses are those of the first
\* pair and read "src=10.0.0.3, dst=10.0.0.4", its header contains 10010; and
\* the table attached to every node is the table the result reports for it.
C12_DemoRunResult ==
    (sim.pc = "done" /\ IsDemoRun) =>
        LET L1 == <<"L", "1">>
            L2 == <<"L", "2">>
            L3 == <<"L", "3">>
            vx == sim.result.vxlan
            sample == vx.sample_encapsulation
        IN /\ overlay.vnis[10010].members = {L1, L2, L3}
           /\ Len(vx.vnis[10010].members) = 3
           /\ Range(vx.vnis[10010].members) = {L1, L2, L3}
           /\ sim.tunnels = <<(<<L1, L2>>), (<<L1, L3>>), (<<L2, L3>>)>>
           /\ vx.tunnels_vni_10010 = sim.tunnels
           /\ sample # None
           /\ vx.vteps[L1].ip = <<"1", "0", ".", "0", ".", "0", ".", "3">>
           /\ vx.vteps[L2].ip = <<"1", "0", ".", "0", ".", "0", ".", "4">>
           /\ Get(sample, "outer_ip_header") = <<"s", "r", "c", "=", "1", "0", ".", "0", ".", "0", ".", "3", ",", " ", "d", "s", "t", "=", "1", "0", ".", "0", ".", "0", ".", "4">>
           /\ Contains(Get(sample, "vxlan_header"), <<"1", "0", "0", "1", "0">>)
           /\ DOMAIN sim.result.routes = DOMAIN fabric.nodes
           /\ \A n \in DOMAIN fabric.nodes :
                 /\ DOMAIN fabric.nodes[n].routes = DOMAIN sim.result.routes[n]
                 /\ \A d \in DOMAIN fabric.nodes[n].routes :
                       fabric.nodes[n].routes[d] =
                           <<sim.result.routes[n][d].nexthop,
                             sim.result.routes[n][d].cost>>

\* C12 witness: simulate() has returned for the fabric of 2 spines and 3 leaves,
\* with a sample, and listed the members of segment 10010 as L3, L1, L2.
C12_Witness ==
    /\ sim.pc = "done"
    /\ IsDemoRun
    /\ call.op = "simulate"
    /\ sim.sample # None
    /\ sim.result.vxlan.vnis[10010].members = <<(<<"L", "3">>), (<<"L", "1">>), (<<"L", "2">>)>>
    /\ \A n \in DOMAIN fabric.nodes : DOMAIN fabric.nodes[n].routes # {}

-----------------------------------------------------------------------------
(* Claims on forwarding by the installed tables *)

\* a packet for d, now at node at, is handed on by the next hop of the table of
\* the node that holds it: where it ends and what the links it crossed cost
RECURSIVE Forward(_, _, _, _, _, _)
Forward(rtab, G, at, d, visited, cost) ==
    IF at = d THEN [end |-> "delivered", cost |-> cost, hops |-> Cardinality(visited) - 1]
    ELSE IF at \notin DOMAIN rtab \/ d \notin DOMAIN rtab[at]
      THEN [end |-> "no route", cost |-> cost, hops |-> Cardinality(visited) - 1]
    ELSE LET nh == rtab[at][d][1]
         IN IF ~HasEdge(G, at, nh)
              THEN [end |-> "no link", cost |-> cost, hops |-> Cardinality(visited) - 1]
            ELSE IF nh \in visited
              THEN [end |-> "loop", cost |-> cost, hops |-> Cardinality(visited) - 1]
            ELSE Forward(rtab, G, nh, d, visited \cup {nh},
                         cost + EdgeCost(G, at, nh))

AllCostsPositive(G) == \A e \in Edges(G) : G.cost[e] > 0

\* C13: when every link costs more than 0, the tables install_routes_for_all
\* returns fit together: for every row (d via nh at cost c) of the table of s,
\* nh is a neighbour of s, and either nh = d or the table of nh has a row for d
\* at cost c - link_cost(s, nh); and a packet handed from s along each node's
\* own next hop for d visits no node twice and is delivered to d after links of
\* total cost c.
C13_TablesForwardHopByHop ==
    (IsInstallCall /\ AllCostsPositive(fabric.graph)) =>
        LET G == fabric.graph
            rtab == call.ret[2]
        IN \A s \in DOMAIN rtab : \A d \in DOMAIN rtab[s] :
             LET nh == rtab[s][d][1]
                 c == rtab[s][d][2]
                 walk == Forward(rtab, G, s, d, {s}, 0)
             IN /\ HasEdge(G, s, nh)
                /\ \/ nh = d
                   \/ /\ nh \in DOMAIN rtab
                      /\ d \in DOMAIN rtab[nh]
                      /\ rtab[nh][d][2] = c - EdgeCost(G, s, nh)
                /\ walk.end = "delivered"
                /\ walk.cost = c

\* C13 witness: the tables of a graph with links of cost 1 and of cost 3, where
\* some packet is delivered over two links, through a node whose own table
\* took it on, although a direct link to d exists.
C13_Witness ==
    /\ IsInstallCall
    /\ AllCostsPositive(fabric.graph)
    /\ {fabric.graph.cost[e] : e \in Edges(fabric.graph)} = {1, 3}
    /\ \E s \in DOMAIN call.ret[2] : \E d \in DOMAIN call.ret[2][s] :
          /\ Forward(call.ret[2], fabric.graph, s, d, {s}, 0).hops = 2
          /\ HasEdge(fabric.graph, s, d)

====
